---------------------------- MODULE Spec2Model ----------------------------
(***************************************************************************)
(* Model of generate_rsd_dataset.py, the synthetic RSD dataset generator.  *)
(*                                                                         *)
(* The script is one straight-line pipeline over a pandas DataFrame df of  *)
(* n rows.  The model keeps the DataFrame as a mapping column -> vector    *)
(* (a vector is a function over df.index = 0..n-1), the column order, the  *)
(* script's position pc, and the written file csv.                        *)
(*                                                                         *)
(* Numbers.  Every score and every probability of the script is a multiple *)
(* of 0.01 once the random draw is fixed, so they are kept as integers in  *)
(* hundredths (0.62 is 62).  approve_score is kept in 1/10000 (its weights *)
(* are hundredths of hundredths) and integration_score in 1/35000 (the     *)
(* age term divides by 35).  A uniform draw u of [0,1) is an integer       *)
(* 0..99; a standard normal draw z is an integer number of fifths of a     *)
(* standard deviation.                                                     *)
(*                                                                         *)
(* Randomness.  np.random.* calls are nondeterministic choices: each call  *)
(* draws one vector, row by row, from the draw sets of a profile.  Rows in *)
(* the profile's `free' set draw from the `rich' sets, every other row     *)
(* takes the `quiet' value.                                                *)
(***************************************************************************)
EXTENDS Integers, Sequences, FiniteSets, TLC

VARIABLES n, pc, df, columns, approve_score, reviewed_idx, bias_p, csv

vars == <<n, pc, df, columns, approve_score, reviewed_idx, bias_p, csv>>

(***************************************************************************)
(* Bounds of the model.                                                    *)
(***************************************************************************)
MaxN == 10
MaxNScores == 1
MaxNReview == 21

(***************************************************************************)
(* Fixed-point units: 1.0 in hundredths, and 1.0 in 1/35000.               *)
(***************************************************************************)
One == 100
IntegOne == 35000

(***************************************************************************)
(* Enumerations and lookup tables, lines 40-45, 94-95, 108-116.            *)
(***************************************************************************)
countries == <<"Syria", "Afghanistan", "Sudan", "Myanmar", "Eritrea", "Venezuela", "Iraq", "Somalia">>
genders == <<"Male", "Female", "Non-binary">>
education_levels == <<"None", "Primary", "Secondary", "Tertiary">>
language_levels == <<"None", "Basic", "Intermediate", "Advanced", "Fluent">>
persecution_grounds == <<"race", "religion", "nationality", "political_opinion", "social_group">>
persecution_types == <<"violence", "detention", "threats", "sexual_violence", "discrimination">>

language_map ==
    ("None" :> -20) @@ ("Basic" :> -10) @@ ("Intermediate" :> 0) @@ ("Advanced" :> 5) @@ ("Fluent" :> 10)

edu_map ==
    ("None" :> -10) @@ ("Primary" :> 0) @@ ("Secondary" :> 5) @@ ("Tertiary" :> 10)

risk_means ==
    ("Syria" :> 85) @@ ("Afghanistan" :> 80) @@ ("Sudan" :> 75) @@ ("Myanmar" :> 70) @@
    ("Eritrea" :> 70) @@ ("Venezuela" :> 55) @@ ("Iraq" :> 65) @@ ("Somalia" :> 78)

ptype_map ==
    ("violence" :> 10) @@ ("detention" :> 5) @@ ("threats" :> 0) @@
    ("sexual_violence" :> 15) @@ ("discrimination" :> -5)

gender_map ==
    ("Male" :> 0) @@ ("Female" :> 8) @@ ("Non-binary" :> 6)

\* variant: risk_score_uncapped forgotten in the list
column_order_short ==
    << "id", "country_of_origin", "gender", "age",
       "education_level", "language_proficiency",
       "family_size", "prior_camp_years",
       "persecution_ground", "persecution_type",
       "nexus_established", "state_protection_score",
       "internal_relocation_possible", "reported_trauma",
       "credibility_score", "risk_score", "integration_score",
       "AI_decision", "human_reviewed", "human_override",
       "final_decision", "processing_time_days",
       "appealed", "appeal_outcome", "bias_flag" >>

\* lines 227-242
column_order ==
    << "id", "country_of_origin", "gender", "age",
       "education_level", "language_proficiency",
       "family_size", "prior_camp_years",
       "persecution_ground", "persecution_type",
       "nexus_established", "state_protection_score",
       "internal_relocation_possible", "reported_trauma",
       "credibility_score", "risk_score", "risk_score_uncapped", "integration_score",
       "AI_decision", "human_reviewed", "human_override",
       "final_decision", "processing_time_days",
       "appealed", "appeal_outcome", "bias_flag" >>

BoolColumns ==
    {"nexus_established", "internal_relocation_possible", "reported_trauma",
     "human_reviewed", "human_override", "appealed"}

(***************************************************************************)
(* numpy / pandas primitives.                                              *)
(***************************************************************************)
Rows == 0 .. (n - 1)

Min(a, b) == IF a < b THEN a ELSE b

Abs(x) == IF x < 0 THEN -x ELSE x

\* np.clip(x, lo, hi)
Clip(x, lo, hi) == IF x < lo THEN lo ELSE IF x > hi THEN hi ELSE x

\* cumulative sum p[1] + ... + p[k]
RECURSIVE Cdf(_, _)
Cdf(p, k) == IF k = 0 THEN 0 ELSE p[k] + Cdf(p, k - 1)

\* np.random.choice(a, p=p) for one uniform draw u: a[cdf.searchsorted(u, side='right')]
Choice(a, p, u) == a[1 + Cardinality({k \in 1 .. Len(p) : Cdf(p, k) <= u})]

\* np.random.normal(loc, scale) for one standard normal draw of z fifths
Normal(loc, scale, z) == loc + (scale * z) \div 5

\* np.random.binomial(1, p) for one uniform draw u
Binomial1(p, u) == u < p

\* the k-element subsets of S
RECURSIVE KSubsets(_, _)
KSubsets(S, k) ==
    IF k = 0 THEN {{}}
    ELSE UNION {{T \cup {x} : T \in KSubsets({y \in S : y > x}, k - 1)} : x \in S}

\* a DataFrame with column c set to the vector v (df[c] = v)
SetCol(d, c, v) == [k \in DOMAIN d \cup {c} |-> IF k = c THEN v ELSE d[k]]

\* the vectors one np.random call may return under profile D for draw c:
\* rows of `act' draw from D.rich[c], the others take D.quiet[c]
Vec(D, c, act) ==
    {[i \in Rows |-> IF i \in act THEN f[i] ELSE D.quiet[c]] :
        f \in [act \cap Rows -> D.rich[c]]}

(***************************************************************************)
(* Program constants.                                                      *)
(***************************************************************************)
ApproveThreshold == 6200
CredGate == 50
ReviewRate == 10
OverrideRate == 50
AppealRate == 30
OverturnRate == 40
TraumaCap == 85

(***************************************************************************)
(* PART 1 - applicant inputs, lines 47-82.                                 *)
(***************************************************************************)
Init(NSet) ==
    /\ n \in NSet
    /\ pc = "sample"
    /\ df = <<>>
    /\ columns = <<>>
    /\ approve_score = <<>>
    /\ reviewed_idx = {}
    /\ bias_p = <<>>
    /\ csv = <<>>

\* lines 47-63: the DataFrame constructor, nine draws of n values each
Sample(D) ==
    /\ pc = "sample"
    /\ \E co \in Vec(D, "country", D.free), ge \in Vec(D, "gender_u", D.free),
          ag \in Vec(D, "age", D.free), ed \in Vec(D, "edu_u", D.free),
          la \in Vec(D, "lang_u", D.free), fa \in Vec(D, "family", D.free),
          ca \in Vec(D, "camp", D.free), gr \in Vec(D, "ground", D.free),
          pt \in Vec(D, "ptype", D.free) :
            df' = ("id" :> [i \in Rows |-> i + 1])
               @@ ("country_of_origin" :> [i \in Rows |-> countries[co[i]]])
               @@ ("gender" :> [i \in Rows |-> Choice(genders, <<48, 48, 4>>, ge[i])])
               @@ ("age" :> ag)
               @@ ("education_level" :>
                     [i \in Rows |-> Choice(education_levels, <<10, 30, 40, 20>>, ed[i])])
               @@ ("language_proficiency" :>
                     [i \in Rows |-> Choice(language_levels, <<5, 25, 40, 20, 10>>, la[i])])
               @@ ("family_size" :> fa)
               @@ ("prior_camp_years" :> ca)
               @@ ("persecution_ground" :> [i \in Rows |-> persecution_grounds[gr[i]]])
               @@ ("persecution_type" :> [i \in Rows |-> persecution_types[pt[i]]])
    /\ columns' = SubSeq(column_order, 1, 10)
    /\ pc' = "nexus"
    /\ UNCHANGED <<n, approve_score, reviewed_idx, bias_p, csv>>

\* df[c] = v as one step of the script: the column is appended when new
Assign(c, v, next) ==
    /\ df' = SetCol(df, c, v)
    /\ columns' = IF c \in DOMAIN df THEN columns ELSE Append(columns, c)
    /\ pc' = next
    /\ UNCHANGED <<n, approve_score, reviewed_idx, bias_p, csv>>

\* line 65
Nexus(D) ==
    /\ pc = "nexus"
    /\ \E u \in Vec(D, "nexus_u", D.free) :
          Assign("nexus_established",
                 [i \in Rows |-> Choice(<<TRUE, FALSE>>, <<70, 30>>, u[i])], "state_protection")

\* line 68
StateProtection(D) ==
    /\ pc = "state_protection"
    /\ \E z \in Vec(D, "sp_z", D.free) :
          Assign("state_protection_score",
                 [i \in Rows |-> Clip(Normal(30, 15, z[i]), 5, One)], "relocation")

\* line 70
Relocation(D) ==
    /\ pc = "relocation"
    /\ \E u \in Vec(D, "reloc_u", D.free) :
          Assign("internal_relocation_possible",
                 [i \in Rows |-> Choice(<<TRUE, FALSE>>, <<40, 60>>, u[i])], "trauma")

\* lines 74-81
trauma_base(i) ==
    LET base == IF df["country_of_origin"][i] \in {"Syria", "Afghanistan", "Eritrea", "Somalia"}
                THEN 65 ELSE 40
    IN  IF df["persecution_type"][i] \in {"sexual_violence", "detention"}
        THEN Min(base + 15, TraumaCap)
        ELSE base

\* line 82
Trauma(D) ==
    /\ pc = "trauma"
    /\ \E u \in Vec(D, "trauma_u", D.free) :
          Assign("reported_trauma",
                 [i \in Rows |-> Binomial1(trauma_base(i), u[i])], "credibility")

(***************************************************************************)
(* PART 2 - scoring functions, lines 97-134.                               *)
(***************************************************************************)
\* lines 97-102, one row: base_cred + lang_effect + edu_effect + trauma_penalty, clipped
credibility(i, z) ==
    LET base_cred == Normal(65, 15, z)
        lang_effect == language_map[df["language_proficiency"][i]]
        edu_effect == edu_map[df["education_level"][i]]
        trauma_penalty == IF df["reported_trauma"][i] THEN -8 ELSE 0
    IN  Clip(base_cred + lang_effect + edu_effect + trauma_penalty, 0, One)

Credibility(D) ==
    /\ pc = "credibility"
    /\ \E z \in Vec(D, "cred_z", D.free) :
          Assign("credibility_score", [i \in Rows |-> credibility(i, z[i])], "risk")

\* lines 118-124, one row
raw_risk(i, z) ==
    LET base_risk == risk_means[df["country_of_origin"][i]]
        ptype_effect == ptype_map[df["persecution_type"][i]]
        gender_effect == gender_map[df["gender"][i]]
        noise == Normal(0, 5, z)
    IN  base_risk + ptype_effect + gender_effect + noise

\* variant: the clip of line 125 left out
risk_score_unclipped(raw) == raw

\* line 125
risk_score(raw) == Clip(raw, 0, One)

\* lines 121-126: one draw, two columns
Risk(D) ==
    /\ pc = "risk"
    /\ \E z \in Vec(D, "noise_z", D.free) :
          LET raw == [i \in Rows |-> raw_risk(i, z[i])] IN
          /\ df' = SetCol(SetCol(df, "risk_score", [i \in Rows |-> risk_score(raw[i])]),
                          "risk_score_uncapped", raw)
          /\ columns' = columns \o <<"risk_score", "risk_score_uncapped">>
    /\ pc' = "integration"
    /\ UNCHANGED <<n, approve_score, reviewed_idx, bias_p, csv>>

\* lines 129-134, one row, in 1/35000:
\*   0.4 * c/100 = 140 c / 35000,  0.2 * (1 - a/35) = 200 (35 - a) / 35000
integration(i, u) ==
    Clip(140 * df["credibility_score"][i]
         + 200 * (35 - Abs(df["age"][i] - 35))
         + 140 * u,
         0, IntegOne)

Integration(D) ==
    /\ pc = "integration"
    /\ \E u \in Vec(D, "integ_u", D.free) :
          Assign("integration_score", [i \in Rows |-> integration(i, u[i])], "approve_score")

(***************************************************************************)
(* PART 3 - AI decision logic, lines 143-159.                              *)
(***************************************************************************)
\* lines 143-148, one row, in 1/10000
ApproveScoreOf(risk, cred, nexus, sp) ==
    45 * risk + 30 * cred + 15 * (IF nexus THEN One ELSE 0) + 10 * (One - sp)

ApproveScore ==
    /\ pc = "approve_score"
    /\ approve_score' =
          [i \in Rows |-> ApproveScoreOf(df["risk_score"][i], df["credibility_score"][i],
                                         df["nexus_established"][i],
                                         df["state_protection_score"][i])]
    /\ pc' = "AI_decision"
    /\ UNCHANGED <<n, df, columns, reviewed_idx, bias_p, csv>>

\* variant: the composite threshold of line 154 made inclusive
AIDecisionInclusive(score, cred, nexus) ==
    IF score >= ApproveThreshold /\ cred > CredGate /\ nexus = TRUE THEN "approve" ELSE "deny"

\* lines 153-159, one row
AIDecisionOf(score, cred, nexus) ==
    IF score > ApproveThreshold /\ cred > CredGate /\ nexus = TRUE THEN "approve" ELSE "deny"

AIDecision ==
    /\ pc = "AI_decision"
    /\ Assign("AI_decision",
              [i \in Rows |-> AIDecisionOf(approve_score[i], df["credibility_score"][i],
                                           df["nexus_established"][i])],
              "oversight_init")

(***************************************************************************)
(* PART 4 - human-in-the-loop oversight, lines 169-189.                    *)
(***************************************************************************)
\* lines 169-170
OversightInit ==
    /\ pc = "oversight_init"
    /\ df' = SetCol(SetCol(df, "human_reviewed", [i \in Rows |-> FALSE]),
                    "human_override", [i \in Rows |-> FALSE])
    /\ columns' = columns \o <<"human_reviewed", "human_override">>
    /\ pc' = "review"
    /\ UNCHANGED <<n, approve_score, reviewed_idx, bias_p, csv>>

\* line 172, size=int(0.10 * n).  The double nearest 0.1 lies above 1/10 by less than
\* 1e-17, so the rounded product truncates to the integer quotient for every table size
ReviewSize(m) == (ReviewRate * m) \div One

\* variant: replace=True, k labels that may repeat
ChooseIdxReplace(index, k) == {{f[j] : j \in 1 .. k} : f \in [1 .. k -> index]}

\* line 172, np.random.choice(index, size=k, replace=False): k distinct labels
ChooseIdx(index, k) == KSubsets(index, k)

\* lines 172-173
Review ==
    /\ pc = "review"
    /\ \E idx \in ChooseIdx(Rows, ReviewSize(n)) :
          /\ reviewed_idx' = idx
          /\ df' = SetCol(df, "human_reviewed",
                          [i \in Rows |-> IF i \in idx THEN TRUE ELSE df["human_reviewed"][i]])
    /\ pc' = "override"
    /\ UNCHANGED <<n, columns, approve_score, bias_p, csv>>

\* variant: the human_reviewed mask of line 176 left out
flip_mask_unmasked(i, u) == u < OverrideRate

\* line 176, one row
flip_mask(i, u) == df["human_reviewed"][i] /\ u < OverrideRate

\* lines 176-177
Override(D) ==
    /\ pc = "override"
    /\ \E u \in Vec(D, "flip_u", D.free \cup reviewed_idx) :
          df' = SetCol(df, "human_override",
                       [i \in Rows |-> IF flip_mask(i, u[i]) THEN TRUE
                                       ELSE df["human_override"][i]])
    /\ pc' = "final_copy"
    /\ UNCHANGED <<n, columns, approve_score, reviewed_idx, bias_p, csv>>

\* line 180
FinalCopy ==
    /\ pc = "final_copy"
    /\ Assign("final_decision", df["AI_decision"], "final_flip")

\* variant: both branches of the lambda return "deny"
FlipToDeny(x) == IF x = "approve" THEN "deny" ELSE "deny"

\* line 183, the lambda
FlipDecision(x) == IF x = "approve" THEN "deny" ELSE "approve"

\* line 181
flip_idx == {i \in Rows : df["human_override"][i]}

\* lines 181-184
FinalFlip ==
    /\ pc = "final_flip"
    /\ Assign("final_decision",
              [i \in Rows |-> IF i \in flip_idx THEN FlipDecision(df["AI_decision"][i])
                              ELSE df["final_decision"][i]],
              "processing_time")

\* lines 187-189: np.random.randint(30, 120, n) + where(reviewed, np.random.randint(20, 60, n), 0)
ProcessingTime(D) ==
    /\ pc = "processing_time"
    /\ \E base_time \in Vec(D, "base_time", D.free), delay \in Vec(D, "delay", D.free) :
          Assign("processing_time_days",
                 [i \in Rows |-> base_time[i] + IF df["human_reviewed"][i] THEN delay[i] ELSE 0],
                 "appeal")

(***************************************************************************)
(* PART 5 - appeals and bias audit, lines 196-221.                         *)
(***************************************************************************)
\* variant: line 197 reading AI_decision instead of final_decision
appealed_on_AI(i, u) == df["AI_decision"][i] = "deny" /\ u < AppealRate

\* line 197, one row
appealed(i, u) == df["final_decision"][i] = "deny" /\ u < AppealRate

\* lines 196-197
Appeal(D) ==
    /\ pc = "appeal"
    /\ \E appeal_rand \in Vec(D, "appeal_u", D.free) :
          Assign("appealed", [i \in Rows |-> appealed(i, appeal_rand[i])], "appeal_outcome")

\* variant: the draw tested before the appealed flag
appeal_outcome_draw_first(row_appealed, u) ==
    IF u < OverturnRate THEN "overturned"
    ELSE IF row_appealed THEN "upheld"
    ELSE "N/A"

\* lines 202-207, one iteration; the draw u is consumed only on the elif
appeal_outcome(row_appealed, u) ==
    IF ~row_appealed THEN "N/A"
    ELSE IF u < OverturnRate THEN "overturned"
    ELSE "upheld"

\* lines 200-208
AppealOutcome(D) ==
    /\ pc = "appeal_outcome"
    /\ \E u \in Vec(D, "outcome_u", D.free \cap {i \in Rows : df["appealed"][i]}) :
          Assign("appeal_outcome",
                 [i \in Rows |-> appeal_outcome(df["appealed"][i], u[i])], "bias_flag")

\* variant: line 217 reading AI_decision instead of final_decision
bias_weights_on_AI(i) ==
    IF df["reported_trauma"][i] /\ df["credibility_score"][i] < 50
    THEN <<40, 40, 20>>
    ELSE IF df["nexus_established"][i] /\ df["AI_decision"][i] = "deny"
    THEN <<50, 35, 15>>
    ELSE <<80, 15, 5>>

\* lines 215-220, one iteration: the p argument of np.random.choice
bias_weights(i) ==
    IF df["reported_trauma"][i] /\ df["credibility_score"][i] < 50
    THEN <<40, 40, 20>>
    ELSE IF df["nexus_established"][i] /\ df["final_decision"][i] = "deny"
    THEN <<50, 35, 15>>
    ELSE <<80, 15, 5>>

\* lines 213-221
BiasFlag(D) ==
    /\ pc = "bias_flag"
    /\ bias_p' = [i \in Rows |-> bias_weights(i)]
    /\ \E u \in Vec(D, "bias_u", D.free) :
          df' = SetCol(df, "bias_flag",
                       [i \in Rows |-> Choice(<<"none", "moderate", "severe">>,
                                              bias_weights(i), u[i])])
    /\ columns' = Append(columns, "bias_flag")
    /\ pc' = "reorder"
    /\ UNCHANGED <<n, approve_score, reviewed_idx, csv>>

(***************************************************************************)
(* PART 6 - column order and export, lines 244-261.                        *)
(***************************************************************************)
\* line 244
Reorder ==
    /\ pc = "reorder"
    /\ df' = [c \in {column_order[k] : k \in 1 .. Len(column_order)} |-> df[c]]
    /\ columns' = column_order
    /\ pc' = "export"
    /\ UNCHANGED <<n, approve_score, reviewed_idx, bias_p, csv>>

\* one cell as to_csv writes it: booleans as the tokens True / False
Cell(c, v) == IF c \in BoolColumns THEN (IF v THEN "True" ELSE "False") ELSE v

\* line 261, to_csv(index=False): the header, then one line per row
to_csv ==
    [header |-> columns,
     rows |-> [r \in 1 .. n |->
                 [k \in 1 .. Len(columns) |-> Cell(columns[k], df[columns[k]][r - 1])]]]

Export ==
    /\ pc = "export"
    /\ csv' = to_csv
    /\ pc' = "done"
    /\ UNCHANGED <<n, df, columns, approve_score, reviewed_idx, bias_p>>

(***************************************************************************)
(* The pipeline.                                                           *)
(***************************************************************************)
Pipeline(D) ==
    \/ Sample(D)
    \/ Nexus(D)
    \/ StateProtection(D)
    \/ Relocation(D)
    \/ Trauma(D)
    \/ Credibility(D)
    \/ Risk(D)
    \/ Integration(D)
    \/ ApproveScore
    \/ AIDecision
    \/ OversightInit
    \/ Review
    \/ Override(D)
    \/ FinalCopy
    \/ FinalFlip
    \/ ProcessingTime(D)
    \/ Appeal(D)
    \/ AppealOutcome(D)
    \/ BiasFlag(D)
    \/ Reorder
    \/ Export

(***************************************************************************)
(* Draw profiles.  Quiet is one applicant: a Syrian man of 35, secondary   *)
(* education, intermediate language, violence, every normal draw at its    *)
(* mean.                                                                   *)
(***************************************************************************)
Quiet ==
    [country |-> 1, gender_u |-> 10, age |-> 35, edu_u |-> 50, lang_u |-> 50,
     family |-> 1, camp |-> 0, ground |-> 1, ptype |-> 1,
     nexus_u |-> 10, sp_z |-> 0, reloc_u |-> 10, trauma_u |-> 90,
     cred_z |-> 0, noise_z |-> 0, integ_u |-> 50,
     flip_u |-> 25, base_time |-> 30, delay |-> 20,
     appeal_u |-> 10, outcome_u |-> 10, bias_u |-> 45]

Narrow == [c \in DOMAIN Quiet |-> {Quiet[c]}]

\* two free applicants varying in what oversight, appeals and the audit read; their
\* bias draw (0.90) and the quiet one (0.45) together yield all three labels
DecisionDraws ==
    [free |-> {0, 1},
     quiet |-> Quiet,
     rich |-> [nexus_u |-> {10, 90}, trauma_u |-> {10, 90}, cred_z |-> {-10, 0},
               flip_u |-> {25, 75}, appeal_u |-> {10, 60}, outcome_u |-> {10, 60},
               bias_u |-> {90}] @@ Narrow]

\* one free applicant varying in everything the scores and the decision read
ScoreDraws ==
    [free |-> {0},
     quiet |-> Quiet,
     rich |-> [country |-> {1, 6, 8}, gender_u |-> {10, 60, 97}, age |-> {18, 64},
               edu_u |-> {5, 20}, lang_u |-> {2, 50}, ptype |-> {4, 5},
               nexus_u |-> {10, 90}, sp_z |-> {-10, 0, 25}, trauma_u |-> {10, 90},
               cred_z |-> {-10, -5, -4, 15}, noise_z |-> {-2, 8},
               integ_u |-> {0, 99}] @@ Narrow]

\* no free applicant: only the review subset and the override coins vary
ReviewDraws ==
    [free |-> {},
     quiet |-> Quiet,
     rich |-> [flip_u |-> {25, 75}] @@ Narrow]

Next == Pipeline(DecisionDraws)

Spec == Init(0 .. MaxN) /\ [][Next]_vars

NextScores == Pipeline(ScoreDraws)

SpecScores == Init(0 .. MaxNScores) /\ [][NextScores]_vars

NextReview == Pipeline(ReviewDraws)

SpecReview == Init(0 .. MaxNReview) /\ [][NextReview]_vars

(***************************************************************************)
(* Vocabulary of the properties.                                           *)
(***************************************************************************)
PcOrder ==
    << "sample", "nexus", "state_protection", "relocation", "trauma",
       "credibility", "risk", "integration",
       "approve_score", "AI_decision",
       "oversight_init", "review", "override", "final_copy", "final_flip", "processing_time",
       "appeal", "appeal_outcome", "bias_flag",
       "reorder", "export", "done" >>

Pos(p) == CHOOSE k \in 1 .. Len(PcOrder) : PcOrder[k] = p

\* the statement at position p has been executed
Past(p) == Pos(pc) > Pos(p)

Has(c) == c \in DOMAIN df

\* the cell of data line r (1..n) under header c in the written file
CsvCell(r, c) == csv.rows[r][CHOOSE k \in 1 .. Len(csv.header) : csv.header[k] = c]

Opposite(a, b) == (a = "approve" /\ b = "deny") \/ (a = "deny" /\ b = "approve")

\* the stage (section 2 of the specification) a position of the script belongs to
StageOf(p) ==
    IF p \in {"sample", "nexus", "state_protection", "relocation", "trauma"} THEN 1
    ELSE IF p \in {"credibility", "risk", "integration"} THEN 2
    ELSE IF p \in {"approve_score", "AI_decision"} THEN 3
    ELSE IF p \in {"oversight_init", "review", "override", "final_copy", "final_flip",
                   "processing_time"} THEN 4
    ELSE IF p \in {"appeal", "appeal_outcome", "bias_flag"} THEN 5
    ELSE IF p \in {"reorder", "export"} THEN 6
    ELSE 7

\* the stage that produces a column
ColumnStage(c) ==
    IF c \in {"credibility_score", "risk_score", "risk_score_uncapped", "integration_score"} THEN 2
    ELSE IF c = "AI_decision" THEN 3
    ELSE IF c \in {"human_reviewed", "human_override", "final_decision",
                   "processing_time_days"} THEN 4
    ELSE IF c \in {"appealed", "appeal_outcome", "bias_flag"} THEN 5
    ELSE 1

(***************************************************************************)
(* C1: once lines 180-184 have run, and in the written file, every row's   *)
(* final_decision equals AI_decision when human_override is false and is   *)
(* the opposite decision when it is true; between the copy of line 180 and *)
(* the flip it is the plain copy.                                          *)
(***************************************************************************)
FinalDecisionIsXor ==
    /\ pc = "final_flip" => \A i \in Rows : df["final_decision"][i] = df["AI_decision"][i]
    /\ Past("final_flip") =>
          \A i \in Rows :
             IF df["human_override"][i]
             THEN Opposite(df["AI_decision"][i], df["final_decision"][i])
             ELSE df["final_decision"][i] = df["AI_decision"][i]
    /\ pc = "done" =>
          \A r \in 1 .. n :
             IF CsvCell(r, "human_override") = "True"
             THEN Opposite(CsvCell(r, "AI_decision"), CsvCell(r, "final_decision"))
             ELSE /\ CsvCell(r, "human_override") = "False"
                  /\ CsvCell(r, "final_decision") = CsvCell(r, "AI_decision")

\* an AI denial flipped to approve beside a row left alone, as exported
FinalDecisionFlipped ==
    /\ pc = "done"
    /\ \E i, j \in Rows :
          /\ df["human_override"][i] /\ df["AI_decision"][i] = "deny"
          /\ df["final_decision"][i] = "approve"
          /\ CsvCell(i + 1, "final_decision") = "approve"
          /\ ~df["human_override"][j] /\ df["final_decision"][j] = df["AI_decision"][j]

(***************************************************************************)
(* C2: from the start of the oversight stage on, a row with human_override *)
(* true has human_reviewed true and is one of the labels of reviewed_idx.  *)
(***************************************************************************)
OverrideImpliesReviewed ==
    Has("human_override") =>
        \A i \in Rows :
           df["human_override"][i] => df["human_reviewed"][i] /\ i \in reviewed_idx

\* the coins have been flipped: one reviewed row is overridden, an unreviewed row is not
OverrideOnReviewedRow ==
    /\ Past("override")
    /\ \E i, j \in Rows :
          /\ df["human_override"][i] /\ df["human_reviewed"][i]
          /\ ~df["human_reviewed"][j] /\ ~df["human_override"][j]

(***************************************************************************)
(* C3: a row with appealed true has final_decision "deny" (the decision    *)
(* after the override), in the table and in the written file.              *)
(***************************************************************************)
AppealedImpliesFinalDeny ==
    /\ Has("appealed") => \A i \in Rows : df["appealed"][i] => df["final_decision"][i] = "deny"
    /\ pc = "done" =>
          \A r \in 1 .. n : CsvCell(r, "appealed") = "True" => CsvCell(r, "final_decision") = "deny"

\* an AI approval flipped to deny by the reviewer, and appealed
AppealAfterFlipToDeny ==
    /\ Has("appealed")
    /\ \E i \in Rows :
          /\ df["AI_decision"][i] = "approve" /\ df["human_override"][i]
          /\ df["final_decision"][i] = "deny" /\ df["appealed"][i]

(***************************************************************************)
(* C4: appeal_outcome is "N/A" exactly on the rows with appealed false,    *)
(* and "overturned" or "upheld" on every appealed row.                     *)
(***************************************************************************)
OutcomeNAIffNotAppealed ==
    /\ Has("appeal_outcome") =>
          \A i \in Rows :
             /\ df["appeal_outcome"][i] \in {"N/A", "overturned", "upheld"}
             /\ df["appeal_outcome"][i] = "N/A" <=> ~df["appealed"][i]
    /\ pc = "done" =>
          \A r \in 1 .. n :
             /\ CsvCell(r, "appeal_outcome") \in {"N/A", "overturned", "upheld"}
             /\ CsvCell(r, "appeal_outcome") = "N/A" <=> CsvCell(r, "appealed") = "False"

\* all three outcomes in one table
AllThreeOutcomes ==
    /\ Has("appeal_outcome")
    /\ \E i, j, k \in Rows :
          /\ df["appealed"][i] /\ df["appeal_outcome"][i] = "overturned"
          /\ df["appealed"][j] /\ df["appeal_outcome"][j] = "upheld"
          /\ ~df["appealed"][k] /\ df["appeal_outcome"][k] = "N/A"

(***************************************************************************)
(* C5: once line 173 has run, and in the written file, the number of rows  *)
(* with human_reviewed true is the integer part of n/10, for every table   *)
(* size and every draw.                                                    *)
(***************************************************************************)
ReviewedCountIsTenth ==
    /\ Past("review") => Cardinality({i \in Rows : df["human_reviewed"][i]}) = n \div 10
    /\ pc = "done" =>
          Cardinality({r \in 1 .. n : CsvCell(r, "human_reviewed") = "True"}) = n \div 10

\* twenty applicants, two distinct rows reviewed, exported
TwoOfTwentyReviewed ==
    /\ pc = "done"
    /\ n = 20
    /\ \E i, j \in Rows : i # j /\ df["human_reviewed"][i] /\ df["human_reviewed"][j]

(***************************************************************************)
(* C6: AI_decision is "approve" exactly when 0.45 risk_score + 0.30        *)
(* credibility_score + 0.15 nexus + 0.10 (1 - state_protection_score) is   *)
(* strictly above 0.62, credibility_score is strictly above 0.50 and       *)
(* nexus_established is true; "deny" otherwise.                            *)
(***************************************************************************)
ApproveIffAllGates ==
    Has("AI_decision") =>
        \A i \in Rows :
           LET score == 45 * df["risk_score"][i] + 30 * df["credibility_score"][i]
                        + (IF df["nexus_established"][i] THEN 1500 ELSE 0)
                        + 10 * (100 - df["state_protection_score"][i])
           IN  /\ df["AI_decision"][i] \in {"approve", "deny"}
               /\ df["AI_decision"][i] = "approve" <=>
                     (score > 6200 /\ df["credibility_score"][i] > 50
                      /\ df["nexus_established"][i])

\* approve_score exactly 0.62 with both other gates open: denied
DeniedAtExactThreshold ==
    /\ Has("AI_decision")
    /\ \E i \in Rows :
          /\ approve_score[i] = 6200
          /\ df["credibility_score"][i] > 50 /\ df["nexus_established"][i]
          /\ df["AI_decision"][i] = "deny"

(***************************************************************************)
(* C7: credibility_score, risk_score and integration_score lie in [0,1],   *)
(* state_protection_score in [0.05,1], and risk_score is                   *)
(* risk_score_uncapped clipped to [0,1].                                   *)
(***************************************************************************)
ScoresInUnitInterval ==
    \A i \in Rows :
       /\ Has("state_protection_score") =>
             5 <= df["state_protection_score"][i] /\ df["state_protection_score"][i] <= 100
       /\ Has("credibility_score") =>
             0 <= df["credibility_score"][i] /\ df["credibility_score"][i] <= 100
       /\ Has("risk_score") =>
             /\ 0 <= df["risk_score"][i] /\ df["risk_score"][i] <= 100
             /\ df["risk_score"][i] =
                   IF df["risk_score_uncapped"][i] < 0 THEN 0
                   ELSE IF df["risk_score_uncapped"][i] > 100 THEN 100
                   ELSE df["risk_score_uncapped"][i]
       /\ Has("integration_score") =>
             0 <= df["integration_score"][i] /\ df["integration_score"][i] <= 35000

\* one applicant with every clip active: risk above 1 capped, credibility floored,
\* state protection floored
ClipsActive ==
    /\ Has("integration_score")
    /\ \E i \in Rows :
          /\ df["risk_score_uncapped"][i] > 100 /\ df["risk_score"][i] = 100
          /\ df["credibility_score"][i] = 0
          /\ df["state_protection_score"][i] = 5

(***************************************************************************)
(* C8: the weights passed to the bias_flag draw are [0.40, 0.40, 0.20]     *)
(* when reported_trauma and credibility_score < 0.5; otherwise             *)
(* [0.50, 0.35, 0.15] when nexus_established and final_decision is deny;   *)
(* otherwise [0.80, 0.15, 0.05].                                           *)
(***************************************************************************)
BiasWeightsByPriority ==
    Past("bias_flag") =>
        \A i \in Rows :
           LET first == df["reported_trauma"][i] /\ df["credibility_score"][i] < 50
               second == df["nexus_established"][i] /\ df["final_decision"][i] = "deny"
           IN  /\ first => bias_p[i] = <<40, 40, 20>>
               /\ ~first /\ second => bias_p[i] = <<50, 35, 15>>
               /\ ~first /\ ~second => bias_p[i] = <<80, 15, 5>>
               /\ df["bias_flag"][i] \in {"none", "moderate", "severe"}

\* one row meeting both conditions and taking the first set, and one row whose AI
\* approval was flipped to deny taking the second set
BothConditionsAndFlippedDeny ==
    /\ Past("bias_flag")
    /\ \E i, j \in Rows :
          /\ df["reported_trauma"][i] /\ df["credibility_score"][i] < 50
          /\ df["nexus_established"][i] /\ df["final_decision"][i] = "deny"
          /\ bias_p[i] = <<40, 40, 20>>
          /\ df["AI_decision"][j] = "approve" /\ df["final_decision"][j] = "deny"
          /\ df["nexus_established"][j] /\ bias_p[j] = <<50, 35, 15>>

(***************************************************************************)
(* C9 as stated: every cell is written once (a written cell never changes  *)
(* and no column disappears), columns appear in stage order, and nothing   *)
(* changes once the file is written.                                       *)
(***************************************************************************)
FieldsWrittenOnce ==
    [][ /\ \A c \in DOMAIN df : c \in DOMAIN df' /\ df'[c] = df[c]
        /\ \A c \in DOMAIN df' : ColumnStage(c) <= StageOf(pc)
        /\ pc = "done" => UNCHANGED <<df, csv>> ]_vars

(***************************************************************************)
(* C9 as the script does it: the stages run in order; a column appears     *)
(* during the stage that produces it and its cells change only during      *)
(* that stage (human_reviewed, human_override and final_decision are       *)
(* initialised and then overwritten inside the oversight stage); the table *)
(* never holds a column of a later stage; nothing changes once the file is *)
(* written.                                                                *)
(***************************************************************************)
FieldsStableAfterStage ==
    [][ /\ StageOf(pc') >= StageOf(pc)
        /\ \A c \in DOMAIN df : ColumnStage(c) <= StageOf(pc)
        /\ \A c \in DOMAIN df :
              /\ c \in DOMAIN df'
              /\ df'[c] # df[c] => ColumnStage(c) = StageOf(pc)
        /\ \A c \in DOMAIN df' \ DOMAIN df : ColumnStage(c) = StageOf(pc)
        /\ pc = "done" => UNCHANGED <<df, csv>> ]_vars

\* a run that rewrote cells inside the oversight stage and reached the written file
RewrittenInsideOversight ==
    /\ pc = "done"
    /\ Len(csv.header) = Len(column_order)
    /\ \E i \in Rows :
          /\ df["human_reviewed"][i]
          /\ df["final_decision"][i] # df["AI_decision"][i]

==========================================================================
